---------------------------- MODULE Spec2Model ----------------------------
(***************************************************************************)
(* tirse: a binary serde encoder (src/src/ser.rs) and decoder              *)
(* (src/src/de.rs) over the byte transports of src/src/io.rs.              *)
(*                                                                         *)
(* One BinarySerializer encodes one value into a growable writer; one      *)
(* BinaryDeserializer is then created over the produced bytes (whole, cut  *)
(* short, or followed by a foreign byte) and runs one decode call of the   *)
(* shape that was encoded.  The format is not self-describing, so the      *)
(* driver always asks for the wire shape it wrote; the tokens of equal     *)
(* width (u32, char code, option token) may be read as one another.        *)
(***************************************************************************)
EXTENDS Integers, Sequences, FiniteSets, TLC

VARIABLES
    order,      \* E: ByteOrder, "LE" or "BE"
    build,      \* overflow checks of the build: "debug" (on) or "release" (off)
    write,      \* BinarySerializer.write
    seq,        \* the BinarySerializeSeq handed out by serialize_seq & co.
    enc,        \* what the driver has encoded, with the region of each item
    read,       \* BinaryDeserializer.read
    access,     \* the SequenceAccess cursor of a compound decode
    dec         \* the decode call: its operation and what it returned

vars == <<order, build, write, seq, enc, read, access, dec>>

---------------------------------------------------------------------------
(* Bounds of the model *)

MaxStrLen == 2      \* longest string drawn over StrAlphabet
MaxFields == 3      \* most fields of a struct or tuple
MaxSeqLen == 2      \* longest sequence or map
MaxCut == 1      \* most bytes cut off the end of the reader's input
MaxCap == 5      \* largest fixed-capacity buffer handed to the slice writer

(* Wire widths of the default delegate, 64-bit platform *)

variant_size == 4
length_size == 8
sequence_length_size == 0
char_size == 4

---------------------------------------------------------------------------
(* Values of the serde data model that the driver hands to the encoder.    *)

Unit == [k |-> "unit", v |-> 0]
UnitStruct == [k |-> "unit_struct", v |-> 0]

Here == <<104, 101, 114, 101>>
StrAlphabet == {104, 169, 195}

RECURSIVE SeqsUpTo(_, _)
SeqsUpTo(S, n) ==
    IF n = 0 THEN {<<>>}
    ELSE LET shorter == SeqsUpTo(S, n - 1)
         IN  shorter \cup {Append(s, x) : s \in shorter, x \in S}

ByteStrings == SeqsUpTo(StrAlphabet, MaxStrLen) \cup {Here}

U8s  == {0, 5}
U16s == {258}
U32s == {0, 1, 2, 7, 17, 55296, 57343, 1114112}
U64s == {5}
CharCodes == {65, 233, 55295, 57344, 1114111}
I8s  == {-128, -1, 127}
I16s == {-2, 258}
I32s == {-65536, 7}
I64s == {-1, 5}

\* paths, as the bytes of their OsStr: the second is not UTF-8
Paths == {<<104>>, <<195>>}

Prim(ty, S) == {[k |-> ty, v |-> x] : x \in S}

Prims ==
    Prim("bool", BOOLEAN) \cup Prim("u8", U8s) \cup Prim("u16", U16s)
        \cup Prim("u32", U32s) \cup Prim("u64", U64s) \cup Prim("char", CharCodes)
        \cup Prim("i8", I8s) \cup Prim("i16", I16s) \cup Prim("i32", I32s)
        \cup Prim("i64", I64s)

\* what the driver puts in a struct, in a tuple, in a sequence or map
Items(k) ==
    CASE k = "struct" -> Prim("u8", {5}) \cup Prim("u32", {0, 7, 17})
      [] k = "tuple" -> Prim("bool", {TRUE}) \cup Prim("u16", U16s)
                            \cup Prim("u64", U64s) \cup Prim("char", {233})
      [] k \in {"newtype_variant", "tuple_variant", "struct_variant"} ->
            Prim("u8", {5}) \cup Prim("u16", U16s)
      [] OTHER -> Prim("u8", {5, 7}) \cup Prim("u16", U16s)

\* the variant_index values the derived Serialize impl of the enum passes
VariantIndexes == {0, 2}

VariantKinds == {"unit_variant", "newtype_variant", "tuple_variant",
                 "struct_variant"}

PrimTypes == {"bool", "u8", "u16", "u32", "u64", "char",
              "i8", "i16", "i32", "i64"}

SignedTypes == {"i8", "i16", "i32", "i64"}

SizeOf(ty) ==
    CASE ty = "bool" -> 1
      [] ty = "u8"   -> 1
      [] ty = "u16"  -> 2
      [] ty = "u32"  -> 4
      [] ty = "u64"  -> 8
      [] ty = "char" -> char_size
      [] ty = "i8"   -> 1
      [] ty = "i16"  -> 2
      [] ty = "i32"  -> 4
      [] ty = "i64"  -> 8

---------------------------------------------------------------------------
(* With(v, F) is F(v) with v evaluated once: `let t = v; F(t)`. *)

With(v, F(_)) == CHOOSE y \in {F(t) : t \in {v}} : TRUE

---------------------------------------------------------------------------
(* byteorder: E::write_uN and E::read_uN *)

RECURSIVE Shr8(_, _)
Shr8(n, k) == IF k = 0 THEN n ELSE Shr8(n \div 256, k - 1)

Reverse(s) == [i \in 1..Len(s) |-> s[Len(s) + 1 - i]]

write_uint(v, w) ==
    LET le == [i \in 1..w |-> Shr8(v, i - 1) % 256]
    IN  IF order = "LE" THEN le ELSE Reverse(le)

RECURSIVE Horner(_, _)
Horner(le, i) == IF i > Len(le) THEN 0 ELSE le[i] + 256 * Horner(le, i + 1)

read_uint(bytes, w) ==
    LET b == SubSeq(bytes, 1, w)
    IN  Horner(IF order = "LE" THEN b ELSE Reverse(b), 1)

\* b as i8
as_i8(b) == IF b >= 128 THEN b - 256 ELSE b

\* E::read_i16 / read_i32 / read_i64: the most significant byte carries the sign
read_int(bytes, w) ==
    LET b == SubSeq(bytes, 1, w)
        le == IF order = "LE" THEN b ELSE Reverse(b)
    IN  Horner([le EXCEPT ![w] = as_i8(@)], 1)

---------------------------------------------------------------------------
(* Errors: ErrorAdapter<Either<codec error, transport error>, D> *)

NoErr == [arm |-> "none", side |-> "none", e |-> "none", a |-> 0, b |-> 0]

RawErr(name, a, b) == [arm |-> "raw", side |-> "raw", e |-> name, a |-> a, b |-> b]

IoError(limit, length) == RawErr("IoError", limit, length)

Left(x) == [x EXCEPT !.side = "Left"]
Right(x) == [x EXCEPT !.side = "Right"]
Inner(x) == [x EXCEPT !.arm = "Inner"]
Other(msg) == [arm |-> "Other", side |-> "none", e |-> msg, a |-> 0, b |-> 0]

\* a message handed to custom: the pieces of a format_args!, text and numbers
Lit(s) == [lit |-> TRUE, s |-> s, n |-> 0]
Num(n) == [lit |-> FALSE, s |-> "", n |-> n]

\* format!("{}", msg)
RECURSIVE format(_, _)
format(msg, i) ==
    IF i > Len(msg) THEN ""
    ELSE (IF msg[i].lit THEN msg[i].s ELSE ToString(msg[i].n))
             \o format(msg, i + 1)

\* impl DisplayCollector for String
String_display(msg) == format(msg, 1)

\* <ErrorAdapter as ser::Error>::custom
ser_Error_custom(msg) == Other(String_display(msg))

\* a custom error filed with the codec's own errors
de_Error_custom_inner(msg) == Inner(Left(RawErr(String_display(msg), 0, 0)))

\* <ErrorAdapter as de::Error>::custom
de_Error_custom(msg) == Other(String_display(msg))

\* what the derived visitor of a compound of n fields says it expects
Expecting(kind, n) ==
    LET elements == <<Num(n), Lit(IF n = 1 THEN " element" ELSE " elements")>>
    IN  CASE kind = "tuple" -> <<Lit("a tuple of size "), Num(n)>>
          [] kind = "struct" -> <<Lit("struct with ")>> \o elements
          [] kind = "tuple_variant" -> <<Lit("tuple variant with ")>> \o elements
          [] OTHER -> <<Lit("struct variant with ")>> \o elements

\* de::Error::invalid_length(len, &exp), a provided method over custom
invalid_length(len, exp) ==
    de_Error_custom(<<Lit("invalid length "), Num(len), Lit(", expected ")>>
                        \o exp)

\* de::Error::invalid_value(Unexpected::Unsigned(v), &exp)
invalid_value(v, exp) ==
    de_Error_custom(<<Lit("invalid value: integer "), Num(v),
                      Lit(", expected ")>> \o exp)

\* not an error value: the call panicked and never returned
Panic == [arm |-> "panic", side |-> "none", e |-> "panic", a |-> 0, b |-> 0]

---------------------------------------------------------------------------
(* core::str::from_utf8 / String::from_utf8: well-formed UTF-8 *)

Cont(b, i, lo, hi) == i <= Len(b) /\ b[i] >= lo /\ b[i] <= hi

RECURSIVE Utf8From(_, _)
Utf8From(b, i) ==
    IF i > Len(b) THEN TRUE
    ELSE LET c == b[i]
         IN  CASE c < 128 -> Utf8From(b, i + 1)
               [] c >= 194 /\ c <= 223 ->
                    Cont(b, i + 1, 128, 191) /\ Utf8From(b, i + 2)
               [] c = 224 ->
                    Cont(b, i + 1, 160, 191) /\ Cont(b, i + 2, 128, 191)
                        /\ Utf8From(b, i + 3)
               [] (c >= 225 /\ c <= 236) \/ c = 238 \/ c = 239 ->
                    Cont(b, i + 1, 128, 191) /\ Cont(b, i + 2, 128, 191)
                        /\ Utf8From(b, i + 3)
               [] c = 237 ->
                    Cont(b, i + 1, 128, 159) /\ Cont(b, i + 2, 128, 191)
                        /\ Utf8From(b, i + 3)
               [] c = 240 ->
                    Cont(b, i + 1, 144, 191) /\ Cont(b, i + 2, 128, 191)
                        /\ Cont(b, i + 3, 128, 191) /\ Utf8From(b, i + 4)
               [] c >= 241 /\ c <= 243 ->
                    Cont(b, i + 1, 128, 191) /\ Cont(b, i + 2, 128, 191)
                        /\ Cont(b, i + 3, 128, 191) /\ Utf8From(b, i + 4)
               [] c = 244 ->
                    Cont(b, i + 1, 128, 143) /\ Cont(b, i + 2, 128, 191)
                        /\ Cont(b, i + 3, 128, 191) /\ Utf8From(b, i + 4)
               [] OTHER -> FALSE

from_utf8(b) == Utf8From(b, 1)

---------------------------------------------------------------------------
(* Write: the growable writer WriteWrapper<Vec<u8>> and the fixed-capacity  *)
(* writer slice::IterMut<u8>.  buf holds the bytes stored so far, cap the   *)
(* length of the slice the iterator still covers, calls the write calls.    *)

VecWriter == [kind |-> "vec", buf |-> <<>>, cap |-> 0, calls |-> 0]

SliceWriter(c) == [kind |-> "slice", buf |-> <<>>, cap |-> c, calls |-> 0]

\* a writer behind a serializer that remembers an earlier encode: once a
\* value has been encoded it stores nothing
WriteWrapper_write_once(w, bytes) ==
    [ok |-> TRUE,
     write |-> [w EXCEPT !.buf = IF enc.k = "none" THEN @ \o bytes ELSE @,
                         !.calls = @ + 1],
     err |-> NoErr]

WriteWrapper_write(w, bytes) ==
    [ok |-> TRUE, write |-> [w EXCEPT !.buf = @ \o bytes, !.calls = @ + 1],
     err |-> NoErr]

\* slice.copy_from_slice(bytes): panics unless both have the same length
copy_from_slice(slice_len, bytes) == slice_len = Len(bytes)

\* a write that stores what fits before it reports the shortage
IterMut_write_partial(w, bytes) ==
    LET limit == w.cap
        called == [w EXCEPT !.calls = @ + 1]
    IN  IF limit < Len(bytes)
        THEN [ok |-> FALSE,
              write |-> [called EXCEPT !.buf = @ \o SubSeq(bytes, 1, limit),
                                       !.cap = 0],
              err |-> IoError(limit, Len(bytes))]
        ELSE [ok |-> TRUE,
              write |-> [called EXCEPT !.buf = @ \o bytes,
                                       !.cap = limit - Len(bytes)],
              err |-> NoErr]

IterMut_write(w, bytes) ==
    LET limit == w.cap
        length == Len(bytes)
        called == [w EXCEPT !.calls = @ + 1]
    IN  IF limit < length
        THEN [ok |-> FALSE, write |-> called, err |-> IoError(limit, length)]
        ELSE IF ~copy_from_slice(limit, bytes)
        THEN [ok |-> FALSE, write |-> called, err |-> Panic]
        ELSE [ok |-> TRUE,
              write |-> [called EXCEPT !.buf = @ \o bytes, !.cap = limit - length],
              err |-> NoErr]

Write_write(w, bytes) ==
    IF w.kind = "vec" THEN WriteWrapper_write(w, bytes) ELSE IterMut_write(w, bytes)

---------------------------------------------------------------------------
(* BinarySerializer: a Result is Ok(serializer) or Err(error); the writer   *)
(* is carried along in both so that what reached it stays visible.          *)

SerResult(r) ==
    IF r.ok \/ r.err = Panic THEN r ELSE [r EXCEPT !.err = Inner(Right(r.err))]

serialize_u8(w, v) == SerResult(Write_write(w, <<v>>))

serialize_u16(w, v) == SerResult(Write_write(w, write_uint(v, 2)))

serialize_u32(w, v) == SerResult(Write_write(w, write_uint(v, 4)))

serialize_u64(w, v) == SerResult(Write_write(w, write_uint(v, 8)))

serialize_i8(w, v) == serialize_u8(w, v % 256)

\* a cast that keeps the magnitude and drops the sign
serialize_i16_magnitude(w, v) == serialize_u16(w, IF v < 0 THEN -v ELSE v)

serialize_i16(w, v) == serialize_u16(w, v % 65536)

\* v as u32, v as u64: the result stands for its residue, as a usize does below
serialize_i32(w, v) == serialize_u32(w, v)

serialize_i64(w, v) == serialize_u64(w, v)

serialize_bool(w, v) == serialize_i8(w, IF v THEN 1 ELSE 0)

\* a variant token of one byte
encode_variant_u8(v) == [k |-> "u8", v |-> v]

encode_variant(v) == [k |-> "u32", v |-> v]
\* a length token of four bytes
encode_length_u32(v) == [k |-> "u32", v |-> v]

encode_length(v) == [k |-> "u64", v |-> v]
encode_char(v) == [k |-> "u32", v |-> v]

RECURSIVE serialize(_, _)
RECURSIVE serialize_bytes(_, _)
RECURSIVE serialize_some(_, _)
RECURSIVE SerializeSeq_serialize_element(_, _)
RECURSIVE FoldElements(_, _, _)

serialize_char(w, v) == serialize(w, encode_char(v))

serialize_none(w) == serialize(w, encode_variant(0))

serialize_some(w, value) ==
    With(serialize(w, encode_variant(1)), LAMBDA r :
         IF r.ok THEN serialize(r.write, value) ELSE r)

\* a unit that leaves a token on the wire
serialize_unit_tagged(w) == serialize(w, encode_variant(0))

serialize_unit(w) == [ok |-> TRUE, write |-> w, err |-> NoErr]

serialize_unit_struct(w) == [ok |-> TRUE, write |-> w, err |-> NoErr]

\* Result<BinarySerializeSeq, Error>: the sequence encoder in field s
serialize_seq(w, len) ==
    With(IF len.some THEN serialize(w, encode_length(len.n))
         ELSE [ok |-> TRUE, write |-> w, err |-> NoErr],
         LAMBDA maybe_self :
            [ok |-> maybe_self.ok, err |-> maybe_self.err,
             s |-> [raw |-> IF maybe_self.ok THEN "Ok" ELSE "ErrNone",
                    write |-> maybe_self.write, err |-> NoErr]])

serialize_tuple(w, len) ==
    [ok |-> TRUE, err |-> NoErr, s |-> [raw |-> "Ok", write |-> w, err |-> NoErr]]

\* a struct that announces its field count, as a sequence does
serialize_struct_prefixed(w, len) == serialize_seq(w, [some |-> TRUE, n |-> len])

serialize_struct(w, len) ==
    [ok |-> TRUE, err |-> NoErr, s |-> [raw |-> "Ok", write |-> w, err |-> NoErr]]

serialize_map(w, len) == serialize_seq(w, len)

\* an encoder that stays usable after a failed element
SerializeSeq_serialize_element_retrying(s, value) ==
    With(serialize(s.write, value), LAMBDA r :
         CASE r.ok -> [tag |-> "Ok", err |-> NoErr,
                       s |-> [raw |-> "Ok", write |-> r.write, err |-> NoErr]]
           [] r.err = Panic -> [tag |-> "Abort", err |-> Panic,
                                s |-> [s EXCEPT !.raw = "Panic"]]
           [] OTHER -> [tag |-> "Err", err |-> r.err,
                        s |-> [raw |-> "Ok", write |-> r.write, err |-> NoErr]])

\* an encoder that keeps the error it has handed out
SerializeSeq_serialize_element_keeping(s, value) ==
    With(IF s.raw = "Ok"
         THEN With(serialize(s.write, value), LAMBDA r :
                   IF r.ok THEN [raw |-> "Ok", write |-> r.write, err |-> NoErr]
                   ELSE IF r.err = Panic
                   THEN [raw |-> "Panic", write |-> r.write, err |-> NoErr]
                   ELSE [raw |-> "ErrSome", write |-> r.write, err |-> r.err])
         ELSE s,
         LAMBDA temp :
            CASE temp.raw = "Ok" -> [tag |-> "Ok", err |-> NoErr, s |-> temp]
              [] temp.raw = "ErrSome" ->
                    [tag |-> "Err", err |-> temp.err, s |-> temp]
              [] OTHER -> [tag |-> "Abort", err |-> Panic, s |-> temp])

\* returns the call's result and the encoder it leaves behind
SerializeSeq_serialize_element(s, value) ==
    With(IF s.raw = "Ok"
         THEN With(serialize(s.write, value), LAMBDA r :
                   IF r.ok THEN [raw |-> "Ok", write |-> r.write, err |-> NoErr]
                   ELSE IF r.err = Panic
                   THEN [raw |-> "Panic", write |-> r.write, err |-> NoErr]
                   ELSE [raw |-> "ErrSome", write |-> r.write, err |-> r.err])
         ELSE s,
         LAMBDA temp :
            CASE temp.raw = "Ok" -> [tag |-> "Ok", err |-> NoErr, s |-> temp]
              [] temp.raw = "ErrSome" ->
                    [tag |-> "Err", err |-> temp.err,
                     s |-> [temp EXCEPT !.raw = "ErrNone", !.err = NoErr]]
              [] OTHER -> [tag |-> "Abort", err |-> Panic, s |-> temp])

SerializeSeq_end(s) ==
    CASE s.raw = "Ok" -> [tag |-> "Ok", err |-> NoErr, write |-> s.write]
      [] s.raw = "ErrSome" -> [tag |-> "Err", err |-> s.err, write |-> s.write]
      [] OTHER -> [tag |-> "Abort", err |-> Panic, write |-> s.write]

\* (0..v.len()).fold(seq, |seq, index| seq.and_then(|s| s.serialize_element(..)))
FoldElements(r, v, index) ==
    IF index > Len(v) THEN r
    ELSE IF ~r.ok THEN FoldElements(r, v, index + 1)
    ELSE With(SerializeSeq_serialize_element(r.s, [k |-> "u8", v |-> v[index]]),
              LAMBDA x :
                 FoldElements([ok |-> x.tag = "Ok", err |-> x.err, s |-> x.s],
                              v, index + 1))

serialize_bytes(w, v) ==
    With(serialize_seq(w, [some |-> TRUE, n |-> Len(v)]), LAMBDA seq0 :
    With(FoldElements(seq0, v, 1), LAMBDA r :
         IF r.ok
         THEN With(SerializeSeq_end(r.s), LAMBDA x :
                   [ok |-> x.tag = "Ok", write |-> x.write, err |-> x.err])
         ELSE [ok |-> FALSE, write |-> r.s.write, err |-> r.err]))

serialize_str(w, v) == serialize_bytes(w, v)

\* a Serialize impl that refuses its value: Path, which is written as a
\* string when it is UTF-8 and raises S::Error::custom otherwise
serialize_path(w, v) ==
    IF from_utf8(v) THEN serialize_str(w, v)
    ELSE [ok |-> FALSE, write |-> w,
          err |-> ser_Error_custom(
                      <<Lit("path contains invalid UTF-8 characters")>>)]

\* <T as Serialize>::serialize: the data model's call into the serializer
serialize(w, value) ==
    CASE value.k = "bool"  -> serialize_bool(w, value.v)
      [] value.k = "u8"    -> serialize_u8(w, value.v)
      [] value.k = "u16"   -> serialize_u16(w, value.v)
      [] value.k = "u32"   -> serialize_u32(w, value.v)
      [] value.k = "u64"   -> serialize_u64(w, value.v)
      [] value.k = "i8"    -> serialize_i8(w, value.v)
      [] value.k = "i16"   -> serialize_i16(w, value.v)
      [] value.k = "i32"   -> serialize_i32(w, value.v)
      [] value.k = "i64"   -> serialize_i64(w, value.v)
      [] value.k = "char"  -> serialize_char(w, value.v)
      [] value.k = "str"   -> serialize_str(w, value.v)
      [] value.k = "bytes" -> serialize_bytes(w, value.v)
      [] value.k = "unit"  -> serialize_unit(w)
      [] value.k = "unit_struct" -> serialize_unit_struct(w)
      [] value.k = "path"  -> serialize_path(w, value.v)
      [] value.k = "option" ->
            IF value.v = <<>> THEN serialize_none(w)
            ELSE serialize_some(w, value.v[1])

serialize_unit_variant(w, variant_index) ==
    serialize(w, encode_variant(variant_index))

\* a newtype variant written without its variant token
serialize_newtype_variant_untagged(w, variant_index, value) == serialize(w, value)

serialize_newtype_variant(w, variant_index, value) ==
    With(serialize(w, encode_variant(variant_index)), LAMBDA r :
         IF r.ok THEN serialize(r.write, value) ELSE r)

serialize_tuple_variant(w, variant_index, len) ==
    With(serialize(w, encode_variant(variant_index)), LAMBDA x :
         [ok |-> x.ok, err |-> x.err,
          s |-> [raw |-> IF x.ok THEN "Ok" ELSE "ErrNone", write |-> x.write,
                 err |-> NoErr]])

serialize_struct_variant(w, variant_index, len) ==
    With(serialize(w, encode_variant(variant_index)), LAMBDA x :
         [ok |-> x.ok, err |-> x.err,
          s |-> [raw |-> IF x.ok THEN "Ok" ELSE "ErrNone", write |-> x.write,
                 err |-> NoErr]])

---------------------------------------------------------------------------
(* usize: arithmetic modulo 2^64.  A value within reach of 2^64 is written  *)
(* as the negative number congruent to it: usize_max, 2^64 - 1, is -1.      *)

usize_max == -1

usize_lt(a, b) == IF (a < 0) = (b < 0) THEN a < b ELSE b < 0

\* a - 1 on usize: panics on overflow where the build checks it, wraps otherwise
usize_dec(a) == [panic |-> a = 0 /\ build = "debug", n |-> a - 1]

---------------------------------------------------------------------------
(* Read: slice::Iter<u8> ("slice") and ReadWrapper<T: io::Read> ("stream")  *)

NoReader == [kind |-> "none", data |-> <<>>, pos |-> 0]

as_slice(r) == SubSeq(r.data, r.pos + 1, Len(r.data))

\* nth that consumes the iterator whatever n is
Iter_nth_all(r, n) == [r EXCEPT !.pos = Len(r.data)]

\* Iterator::nth(n) on the slice iterator: drops n + 1 items, or all of them
Iter_nth(r, n) ==
    IF n < 0 \/ n >= Len(as_slice(r))
    THEN [r EXCEPT !.pos = Len(r.data)]
    ELSE [r EXCEPT !.pos = @ + n + 1]

\* a read that throws the remaining bytes away when it fails
Iter_read_draining(r, length) ==
    With(Len(as_slice(r)), LAMBDA limit :
         IF usize_lt(limit, length)
         THEN [some |-> TRUE, tag |-> "Err", bytes |-> <<>>,
               err |-> IoError(limit, length),
               read |-> [r EXCEPT !.pos = Len(r.data)]]
         ELSE [some |-> TRUE, tag |-> "Ok",
               bytes |-> SubSeq(as_slice(r), 1, length),
               err |-> NoErr, read |-> Iter_nth(r, length - 1)])

\* Option<Result<&[u8], IoError>>: some = FALSE is the needs-buffering signal
Iter_read(r, length) ==
    With(Len(as_slice(r)), LAMBDA limit :
         IF usize_lt(limit, length)
         THEN [some |-> TRUE, tag |-> "Err", bytes |-> <<>>,
               err |-> IoError(limit, length), read |-> r]
         ELSE With(usize_dec(length), LAMBDA n :
                   IF n.panic
                   THEN [some |-> TRUE, tag |-> "Abort", bytes |-> <<>>,
                         err |-> NoErr, read |-> r]
                   ELSE [some |-> TRUE, tag |-> "Ok",
                         bytes |-> SubSeq(as_slice(r), 1, length),
                         err |-> NoErr, read |-> Iter_nth(r, n.n)]))

Iter_read_in_buffer(r, length) == Iter_read(r, length)

Iter_is(r) == Len(as_slice(r)) # 0

ReadWrapper_read(r, length) ==
    [some |-> FALSE, tag |-> "Ok", bytes |-> <<>>, err |-> NoErr, read |-> r]

\* io::Read::read_exact on the wrapped stream; where the stream stands after
\* a failed read_exact is unspecified, and nothing reads it again
ReadWrapper_read_in_buffer(r, length) ==
    IF Len(as_slice(r)) < length
    THEN [some |-> TRUE, tag |-> "Err", bytes |-> <<>>,
          err |-> RawErr("UnexpectedEof", 0, 0), read |-> r]
    ELSE [some |-> TRUE, tag |-> "Ok", bytes |-> SubSeq(as_slice(r), 1, length),
          err |-> NoErr, read |-> [r EXCEPT !.pos = @ + length]]

ReadWrapper_is(r) == TRUE

Read_read(r, length) ==
    IF r.kind = "slice" THEN Iter_read(r, length) ELSE ReadWrapper_read(r, length)

Read_read_in_buffer(r, length) ==
    IF r.kind = "slice" THEN Iter_read_in_buffer(r, length)
    ELSE ReadWrapper_read_in_buffer(r, length)

Read_is(r) == IF r.kind = "slice" THEN Iter_is(r) ELSE ReadWrapper_is(r)

---------------------------------------------------------------------------
(* DefaultBinaryDeserializerDelegate *)

decode_variant(bytes) == read_uint(bytes, variant_size)

decode_length(bytes) == read_uint(bytes, length_size)

decode_sequence_length(bytes) == [some |-> FALSE, n |-> 0]

\* a conversion that lets surrogate codes through
from_u32_lenient(code) == [some |-> code <= 1114111, c |-> code]

\* core::char::from_u32
from_u32(code) ==
    [some |-> code < 55296 \/ (code > 57343 /\ code <= 1114111), c |-> code]

decode_char(bytes) ==
    With(read_uint(bytes, 4), LAMBDA code :
         [ok |-> from_u32(code).some, c |-> code, code |-> code])

---------------------------------------------------------------------------
(* BinaryDeserializer: each call returns Ok(value), Err(error) or aborts    *)
(* (a panic), and leaves the reader in field read.                          *)

DOk(value, r) == [tag |-> "Ok", value |-> value, err |-> NoErr, read |-> r]
DErr(e, r) == [tag |-> "Err", value |-> Unit, err |-> e, read |-> r]
DAbort(r) == [tag |-> "Abort", value |-> Unit, err |-> NoErr, read |-> r]

\* read.read(n) ... .unwrap_or_else(|| read.read_in_buffer(&mut buffer, n))
read_or_buffer(r, n) ==
    With(Read_read(r, n), LAMBDA x :
         IF x.some THEN x ELSE Read_read_in_buffer(r, n))

\* the $reader argument of primitive!
reader(ty, b) ==
    CASE ty = "bool" -> b[1] # 0
      [] ty = "u8" -> b[1]
      [] ty = "i8" -> as_i8(b[1])
      [] ty \in {"i16", "i32", "i64"} -> read_int(b, SizeOf(ty))
      [] OTHER -> read_uint(b, SizeOf(ty))

\* primitive!($ty, ...)
deserialize_primitive(r, ty) ==
    With(read_or_buffer(r, SizeOf(ty)), LAMBDA x :
         CASE x.tag = "Abort" -> DAbort(x.read)
           [] x.tag = "Err" -> DErr(Inner(Right(x.err)), x.read)
           [] OTHER -> DOk([k |-> ty, v |-> reader(ty, x.bytes)], x.read))

deserialize_char(r) ==
    With(read_or_buffer(r, char_size), LAMBDA x :
         CASE x.tag = "Abort" -> DAbort(x.read)
           [] x.tag = "Err" -> DErr(Inner(Right(x.err)), x.read)
           [] OTHER ->
                With(decode_char(x.bytes), LAMBDA v :
                     IF v.ok THEN DOk([k |-> "char", v |-> v.c], x.read)
                     ELSE DErr(Inner(Left(RawErr("WrongChar", v.code, 0))),
                               x.read)))

\* the second read of a string decode: the bytes, validated when utf8
Content(y, utf8, invalid) ==
    CASE ~y.some \/ y.tag = "Abort" -> DAbort(y.read)
      [] y.tag = "Err" -> DErr(Inner(Right(y.err)), y.read)
      [] utf8 /\ ~from_utf8(y.bytes) ->
            DErr(Inner(Left(RawErr(invalid, 0, 0))), y.read)
      [] OTHER -> DOk([k |-> IF utf8 THEN "str" ELSE "bytes", v |-> y.bytes],
                      y.read)

\* a borrowing decode that falls back on a buffer of its own
deserialize_borrowed_buffering(r, utf8) ==
    With(read_or_buffer(r, length_size), LAMBDA x :
         CASE x.tag = "Abort" -> DAbort(x.read)
           [] x.tag = "Err" -> DErr(Inner(Right(x.err)), x.read)
           [] OTHER ->
                With(read_or_buffer(x.read, decode_length(x.bytes)), LAMBDA y :
                     Content(y, utf8, "Utf8Error")))

\* the borrowing decode of deserialize_str (utf8 = TRUE) and deserialize_bytes
deserialize_borrowed(r, utf8) ==
    With(Read_read(r, length_size), LAMBDA x :
         CASE ~x.some ->
                DErr(Inner(Left(RawErr("CannotReadBorrowed", 0, 0))), x.read)
           [] x.tag = "Abort" -> DAbort(x.read)
           [] x.tag = "Err" -> DErr(Inner(Right(x.err)), x.read)
           [] OTHER ->
                With(Read_read(x.read, decode_length(x.bytes)), LAMBDA y :
                     Content(y, utf8, "Utf8Error")))

deserialize_str(r) == deserialize_borrowed(r, TRUE)

deserialize_bytes(r) == deserialize_borrowed(r, FALSE)

\* the owning decode of deserialize_string (utf8 = TRUE) and deserialize_byte_buf
deserialize_owned(r, utf8) ==
    With(read_or_buffer(r, length_size), LAMBDA x :
         CASE x.tag = "Abort" -> DAbort(x.read)
           [] x.tag = "Err" -> DErr(Inner(Right(x.err)), x.read)
           [] OTHER ->
                With(read_or_buffer(x.read, decode_length(x.bytes)), LAMBDA y :
                     Content(y, utf8, "FromUtf8Error")))

deserialize_string(r) == deserialize_owned(r, TRUE)

deserialize_byte_buf(r) == deserialize_owned(r, FALSE)

deserialize_unit(r) == DOk(Unit, r)

deserialize_unit_struct(r) == DOk(Unit, r)

NotSupported == Inner(Left(RawErr("NotSupported", 0, 0)))

deserialize_any(r) == DErr(NotSupported, r)

deserialize_identifier(r) == DErr(NotSupported, r)

\* a decode that skips whatever the input holds
deserialize_ignored_any_skipping(r) == DOk(Unit, [r EXCEPT !.pos = Len(r.data)])

deserialize_ignored_any(r) == DErr(NotSupported, r)

\* <T as Deserialize>::deserialize for a seed of primitive type
deserialize(r, ty) ==
    CASE ty = "char" -> deserialize_char(r)
      [] ty = "unit" -> deserialize_unit(r)
      [] OTHER -> deserialize_primitive(r, ty)

\* an option decode that takes every nonzero token for present
deserialize_option_lenient(r, inner) ==
    With(read_or_buffer(r, variant_size), LAMBDA x :
         CASE x.tag = "Abort" -> DAbort(x.read)
           [] x.tag = "Err" -> DErr(Inner(Right(x.err)), x.read)
           [] decode_variant(x.bytes) = 0 ->
                DOk([k |-> "option", v |-> <<>>], x.read)
           [] OTHER ->
                With(deserialize(x.read, inner), LAMBDA y :
                     IF y.tag = "Ok"
                     THEN DOk([k |-> "option", v |-> <<y.value>>], y.read)
                     ELSE y))

\* inner is the type the Option visitor decodes on visit_some
deserialize_option(r, inner) ==
    With(read_or_buffer(r, variant_size), LAMBDA x :
         CASE x.tag = "Abort" -> DAbort(x.read)
           [] x.tag = "Err" -> DErr(Inner(Right(x.err)), x.read)
           [] OTHER ->
                With(decode_variant(x.bytes), LAMBDA variant :
                     CASE variant = 0 -> DOk([k |-> "option", v |-> <<>>], x.read)
                       [] variant = 1 ->
                            With(deserialize(x.read, inner), LAMBDA y :
                                 IF y.tag = "Ok"
                                 THEN DOk([k |-> "option", v |-> <<y.value>>],
                                          y.read)
                                 ELSE y)
                       [] OTHER ->
                            DErr(Inner(Left(RawErr("UnexpectedVariant", variant,
                                                   0))), x.read)))

\* EnumAccess::variant_seed: u32::deserialize, then the identifier visitor
\* of the enum, which knows the indexes in known
variant_seed(r, known) ==
    With(deserialize(r, "u32"), LAMBDA x :
         IF x.tag = "Ok" /\ x.value.v \notin known
         THEN DErr(invalid_value(x.value.v, <<Lit("variant index")>>), x.read)
         ELSE x)

\* VariantAccess::unit_variant
unit_variant(r) == DOk(Unit, r)

\* VariantAccess::newtype_variant_seed
newtype_variant_seed(r, seed) == deserialize(r, seed)

---------------------------------------------------------------------------
(* SequenceAccess: the cursor of deserialize_seq, _map, _tuple, _struct     *)

None == [some |-> FALSE, n |-> 0]
Some(n) == [some |-> TRUE, n |-> n]

SequenceAccess_new == None

SequenceAccess_new_with_length(length) == Some(length)

Pull(tag, d, len, at) ==
    [tag |-> tag, value |-> d.value, err |-> d.err, read |-> d.read,
     len |-> len, at |-> at]

\* the `let length = match self.len { .. }` of next_element_seed
cursor_length(len, r) ==
    IF len.some
    THEN [tag |-> "Ok", n |-> len.n, err |-> NoErr, read |-> r]
    ELSE With(read_or_buffer(r, sequence_length_size), LAMBDA y :
         With(decode_sequence_length(y.bytes), LAMBDA l :
              [tag |-> y.tag, n |-> IF l.some THEN l.n ELSE usize_max,
               err |-> y.err, read |-> y.read]))

\* a pull that takes its decrement back when the element's decode fails
next_element_seed_rollback(len, r, seed) ==
    With(cursor_length(len, r), LAMBDA x :
         CASE x.tag = "Abort" -> Pull("Abort", DAbort(x.read), len, x.read.pos)
           [] x.tag = "Err" ->
                Pull("Err", DErr(Inner(Right(x.err)), x.read), len, x.read.pos)
           [] x.n # 0 ->
                IF Read_is(x.read)
                THEN With(deserialize(x.read, seed), LAMBDA d :
                          Pull(IF d.tag = "Ok" THEN "Some" ELSE d.tag, d,
                               IF d.tag = "Ok" THEN Some(x.n - 1) ELSE len,
                               x.read.pos))
                ELSE Pull("None", DOk(Unit, x.read), Some(x.n - 1), x.read.pos)
           [] OTHER -> Pull("None", DOk(Unit, x.read), len, x.read.pos))

\* one pull: tag "Some" (an element), "None" (exhausted), "Err" or "Abort";
\* len is the cursor's count after the pull, at where the element starts
next_element_seed(len, r, seed) ==
    With(cursor_length(len, r), LAMBDA x :
         CASE x.tag = "Abort" -> Pull("Abort", DAbort(x.read), len, x.read.pos)
           [] x.tag = "Err" ->
                Pull("Err", DErr(Inner(Right(x.err)), x.read), len, x.read.pos)
           [] x.n # 0 ->
                IF Read_is(x.read)
                THEN With(deserialize(x.read, seed), LAMBDA d :
                          Pull(IF d.tag = "Ok" THEN "Some" ELSE d.tag, d,
                               Some(x.n - 1), x.read.pos))
                ELSE Pull("None", DOk(Unit, x.read), Some(x.n - 1), x.read.pos)
           [] OTHER -> Pull("None", DOk(Unit, x.read), len, x.read.pos))

---------------------------------------------------------------------------
(* The state machine *)

NoSeq == [raw |-> "none", err |-> NoErr]
\* val: the value of a scalar encode, or the one handed to the last
\* serialize_element; res and err: how the last call on the encoder ended;
\* failed: the serialize_element calls that did not return Ok
NoEnc == [k |-> "none", val |-> Unit, items |-> <<>>, declared |-> None,
          open |-> FALSE, res |-> "Ok", err |-> NoErr, index |-> 0,
          failed |-> 0]
NoAccess == [kind |-> "none", len |-> None, seeds |-> <<>>, got |-> <<>>]
NoDec == [op |-> "none", tag |-> "none", value |-> Unit, err |-> NoErr]

Init ==
    /\ order \in {"LE", "BE"}
    /\ build \in {"debug", "release"}
    /\ write \in {VecWriter} \cup {SliceWriter(c) : c \in 0..MaxCap}
    /\ seq = NoSeq
    /\ enc = NoEnc
    /\ read = NoReader
    /\ access = NoAccess
    /\ dec = NoDec

Decoding == UNCHANGED <<order, build, write, seq, enc>>
Encoding == UNCHANGED <<order, build, read, access, dec>>

Fresh == enc.k = "none" /\ read.kind = "none"

\* how a call of the serializer ended
Outcome(r) == IF r.ok THEN "Ok" ELSE IF r.err = Panic THEN "Abort" ELSE "Err"

\* value.serialize(serializer) for a value that needs no compound encoder
SerializeValue(value) ==
    /\ Fresh
    /\ \E r \in {serialize(write, value)} :
           /\ write' = r.write
           /\ enc' = [NoEnc EXCEPT !.k = value.k, !.val = value,
                                   !.res = Outcome(r), !.err = r.err]
    /\ seq' = seq
    /\ Encoding

SerializePrimitive == \E value \in Prims : SerializeValue(value)

\* ().serialize(serializer) and the derived impl of `struct Name;`
SerializeUnit == \E value \in {Unit, UnitStruct} : SerializeValue(value)

SerializePath == \E v \in Paths : SerializeValue([k |-> "path", v |-> v])

SerializeStr == \E v \in ByteStrings : SerializeValue([k |-> "str", v |-> v])

SerializeBytes == \E v \in ByteStrings : SerializeValue([k |-> "bytes", v |-> v])

SerializeOption ==
    \E v \in {<<>>} \cup {<<p>> : p \in Prims} :
        SerializeValue([k |-> "option", v |-> v])

\* serializer.serialize_struct(name, len)
SerializeStruct ==
    \E len \in 0..MaxFields :
        /\ Fresh
        /\ \E r \in {serialize_struct(write, len)} :
               /\ write' = r.s.write
               /\ seq' = [raw |-> r.s.raw, err |-> r.s.err]
        /\ enc' = [NoEnc EXCEPT !.k = "struct", !.declared = Some(len), !.open = TRUE]
        /\ Encoding

\* serializer.serialize_tuple(len)
SerializeTuple ==
    \E len \in 0..MaxFields :
        /\ Fresh
        /\ \E r \in {serialize_tuple(write, len)} :
               /\ write' = r.s.write
               /\ seq' = [raw |-> r.s.raw, err |-> r.s.err]
        /\ enc' = [NoEnc EXCEPT !.k = "tuple", !.declared = Some(len), !.open = TRUE]
        /\ Encoding

\* serializer.serialize_seq(len) and serializer.serialize_map(len)
SerializeSeq ==
    \E kind \in {"seq", "map"}, len \in {None} \cup {Some(n) : n \in 0..MaxSeqLen} :
        /\ Fresh
        /\ \E r \in {IF kind = "seq" THEN serialize_seq(write, len)
                    ELSE serialize_map(write, len)} :
               /\ write' = r.s.write
               /\ seq' = IF r.ok THEN [raw |-> r.s.raw, err |-> r.s.err] ELSE NoSeq
               /\ enc' = [NoEnc EXCEPT !.k = kind, !.declared = len,
                                       !.open = r.ok, !.res = Outcome(r),
                                       !.err = r.err]
        /\ Encoding

\* serializer.serialize_unit_variant(name, variant_index, variant)
SerializeUnitVariant ==
    \E index \in VariantIndexes :
        /\ Fresh
        /\ \E r \in {serialize_unit_variant(write, index)} :
               /\ write' = r.write
               /\ enc' = [NoEnc EXCEPT !.k = "unit_variant", !.index = index,
                                       !.res = Outcome(r), !.err = r.err]
        /\ seq' = seq
        /\ Encoding

\* serializer.serialize_newtype_variant(name, variant_index, variant, value)
SerializeNewtypeVariant ==
    \E index \in VariantIndexes, value \in Items("newtype_variant") :
        /\ Fresh
        /\ \E r \in {serialize_newtype_variant(write, index, value)} :
               /\ write' = r.write
               /\ enc' = [NoEnc EXCEPT !.k = "newtype_variant", !.index = index,
                                       !.val = value,
                                       !.res = Outcome(r), !.err = r.err]
        /\ seq' = seq
        /\ Encoding

\* serializer.serialize_tuple_variant(name, variant_index, variant, len)
SerializeTupleVariant ==
    \E index \in VariantIndexes, len \in 0..MaxFields :
        /\ Fresh
        /\ \E r \in {serialize_tuple_variant(write, index, len)} :
               /\ write' = r.s.write
               /\ seq' = IF r.ok THEN [raw |-> r.s.raw, err |-> r.s.err] ELSE NoSeq
               /\ enc' = [NoEnc EXCEPT !.k = "tuple_variant", !.index = index,
                                       !.declared = Some(len), !.open = r.ok,
                                       !.res = Outcome(r), !.err = r.err]
        /\ Encoding

\* serializer.serialize_struct_variant(name, variant_index, variant, len)
SerializeStructVariant ==
    \E index \in VariantIndexes, len \in 0..MaxFields :
        /\ Fresh
        /\ \E r \in {serialize_struct_variant(write, index, len)} :
               /\ write' = r.s.write
               /\ seq' = IF r.ok THEN [raw |-> r.s.raw, err |-> r.s.err] ELSE NoSeq
               /\ enc' = [NoEnc EXCEPT !.k = "struct_variant", !.index = index,
                                       !.declared = Some(len), !.open = r.ok,
                                       !.res = Outcome(r), !.err = r.err]
        /\ Encoding

\* how many serialize_element / serialize_field calls the driver makes
Arity(e) ==
    LET n == IF e.declared.some THEN e.declared.n ELSE MaxSeqLen
    IN  IF e.k = "map" THEN 2 * n ELSE n

\* elements of one sequence, keys of one map, values of one map: one type each
SameType(e, value) ==
    LET i == Len(e.items) + 1
        stride == IF e.k = "map" THEN 2 ELSE 1
    IN  i > stride => e.items[i - stride].val.k = value.k

\* serialize_element, serialize_field, serialize_key, serialize_value
SerializeElement ==
    \E value \in Items(enc.k) :
        /\ enc.open
        /\ enc.res # "Abort"
        /\ Len(enc.items) < Arity(enc)
        /\ enc.k \in {"seq", "map"} => SameType(enc, value)
        /\ \E x \in {SerializeSeq_serialize_element(
                        [raw |-> seq.raw, write |-> write, err |-> seq.err], value)} :
               /\ write' = x.s.write
               /\ seq' = [raw |-> x.s.raw, err |-> x.s.err]
               /\ enc' = [enc EXCEPT
                             !.items = IF x.tag = "Ok"
                                       THEN Append(@, [val |-> value,
                                                       from |-> Len(write.buf),
                                                       to |-> Len(x.s.write.buf)])
                                       ELSE @,
                             !.val = value, !.res = x.tag, !.err = x.err,
                             !.failed = IF x.tag = "Ok" THEN @ ELSE @ + 1]
        /\ Encoding

\* end() of the compound encoder
SerializeEnd ==
    /\ enc.open
    /\ enc.res # "Abort"
    /\ enc.declared.some => Len(enc.items) = Arity(enc)
    /\ enc.k = "map" => Len(enc.items) % 2 = 0
    /\ \E x \in {SerializeSeq_end([raw |-> seq.raw, write |-> write,
                                    err |-> seq.err])} :
           /\ write' = x.write
           /\ enc' = [enc EXCEPT !.open = FALSE, !.res = x.tag, !.err = x.err]
    /\ seq' = NoSeq
    /\ Encoding

Tails == {<<9>>}

\* BinaryDeserializer::new(read) over the encoder's output: whole, without
\* its last bytes, or followed by bytes that are not part of the value
BinaryDeserializer_new ==
    \E kind \in {"slice", "stream"},
       data \in {write.buf}
                \cup {SubSeq(write.buf, 1, Len(write.buf) - c) :
                          c \in 1..(IF MaxCut < Len(write.buf) THEN MaxCut
                                    ELSE Len(write.buf))}
                \cup {write.buf \o t : t \in Tails} :
        /\ enc.k # "none"
        /\ ~enc.open
        /\ enc.res = "Ok"
        /\ write.kind = "vec"
        /\ read.kind = "none"
        /\ read' = [kind |-> kind, data |-> data, pos |-> 0]
        /\ access' = NoAccess
        /\ dec' = NoDec
        /\ Decoding

Ready == read.kind # "none" /\ dec.tag = "none"

Return(op, result) ==
    /\ \E d \in {result} :
           /\ dec' = [op |-> op, tag |-> d.tag, value |-> d.value, err |-> d.err]
           /\ read' = d.read
    /\ access' = access
    /\ Decoding

DeserializePrimitive ==
    \E ty \in PrimTypes \ {"char"} :
        /\ Ready
        /\ enc.k \in PrimTypes
        /\ SizeOf(enc.k) = SizeOf(ty)
        /\ (enc.k \in SignedTypes /\ enc.val.v < 0)
              => (ty \in SignedTypes \/ SizeOf(ty) = 1)
        /\ Return(ty, deserialize_primitive(read, ty))

DeserializeChar ==
    /\ Ready
    /\ enc.k \in {"char", "u32"}
    /\ Return("char", deserialize_char(read))

DeserializeStr ==
    /\ Ready
    /\ enc.k \in {"str", "bytes"}
    /\ Return("str", deserialize_str(read))

DeserializeString ==
    /\ Ready
    /\ enc.k \in {"str", "bytes"}
    /\ Return("string", deserialize_string(read))

DeserializeBytes ==
    /\ Ready
    /\ enc.k \in {"str", "bytes"}
    /\ Return("bytes", deserialize_bytes(read))

DeserializeByteBuf ==
    /\ Ready
    /\ enc.k \in {"str", "bytes"}
    /\ Return("byte_buf", deserialize_byte_buf(read))

\* Option<T>::deserialize, T the type the value was encoded with
InnerType == IF enc.k = "option" /\ enc.val.v # <<>> THEN enc.val.v[1].k ELSE "u8"

DeserializeOption ==
    /\ Ready
    /\ enc.k \in {"option", "u32"}
    /\ Return("option", deserialize_option(read, InnerType))

DeserializeUnit ==
    /\ Ready
    /\ Return("unit", deserialize_unit(read))

DeserializeUnitStruct ==
    /\ Ready
    /\ Return("unit_struct", deserialize_unit_struct(read))

DeserializeAny ==
    /\ Ready
    /\ Return("any", deserialize_any(read))

DeserializeIdentifier ==
    /\ Ready
    /\ Return("identifier", deserialize_identifier(read))

DeserializeIgnoredAny ==
    /\ Ready
    /\ Return("ignored_any", deserialize_ignored_any(read))

ItemTypes(e) == [i \in 1..Len(e.items) |-> e.items[i].val.k]

\* the cursor handed to visit_seq / visit_map; a visitor that asks for no
\* element returns at once
Visit(op, len, seeds, done) ==
    /\ access' = [kind |-> op, len |-> len, seeds |-> seeds, got |-> <<>>]
    /\ dec' = [NoDec EXCEPT !.op = op, !.tag = IF done THEN "Ok" ELSE "pending"]
    /\ read' = read
    /\ Decoding

\* deserialize_tuple(len, visitor)
deserialize_tuple(len) == SequenceAccess_new_with_length(len)

\* deserialize_struct(name, fields, visitor)
deserialize_struct(fields) == deserialize_tuple(Len(fields))

deserialize_seq == SequenceAccess_new

deserialize_map == SequenceAccess_new

DeserializeTuple ==
    /\ Ready
    /\ enc.k = "tuple"
    /\ Visit("tuple", deserialize_tuple(Len(enc.items)), ItemTypes(enc),
             enc.items = <<>>)

DeserializeStruct ==
    /\ Ready
    /\ enc.k = "struct"
    /\ Visit("struct", deserialize_struct(ItemTypes(enc)), ItemTypes(enc),
             enc.items = <<>>)

ElemSeeds(e, n) ==
    [i \in 1..n |-> IF i <= Len(e.items) THEN e.items[i].val.k ELSE "u8"]

DeserializeSeq ==
    /\ Ready
    /\ enc.k = "seq"
    /\ Visit("seq", deserialize_seq, ElemSeeds(enc, 1), FALSE)

DeserializeMap ==
    /\ Ready
    /\ enc.k = "map"
    /\ Visit("map", deserialize_map, ElemSeeds(enc, 2), FALSE)

\* VariantAccess::tuple_variant(len, visitor)
tuple_variant(len) == deserialize_tuple(len)

\* VariantAccess::struct_variant(fields, visitor)
struct_variant(fields) == deserialize_tuple(Len(fields))

\* the enum value the visitor builds: the variant and its payload
Variant(index, payload) == [k |-> "variant", v |-> index, p |-> payload]

\* deserialize_enum(name, variants, visitor) for the enum type the value was
\* encoded from: visit_enum calls variant_seed, then the VariantAccess
\* method of the variant's form
DeserializeEnum ==
    /\ Ready
    /\ enc.k \in VariantKinds
    /\ \E x \in {variant_seed(read, {enc.index})} :
         \E y \in {CASE x.tag # "Ok" -> x
                     [] enc.k = "unit_variant" -> unit_variant(x.read)
                     [] enc.k = "newtype_variant" ->
                            newtype_variant_seed(x.read, enc.val.k)
                     [] OTHER -> DOk(Unit, x.read)} :
         \E len \in {CASE enc.k = "tuple_variant" -> tuple_variant(Len(enc.items))
                       [] enc.k = "struct_variant" ->
                              struct_variant(ItemTypes(enc))
                       [] OTHER -> None} :
            /\ read' = y.read
            /\ access' = IF x.tag = "Ok" /\ len.some
                          THEN [kind |-> enc.k, len |-> len,
                                seeds |-> ItemTypes(enc), got |-> <<>>]
                          ELSE NoAccess
            /\ dec' = [op |-> "enum",
                       tag |-> IF y.tag = "Ok" /\ len.some /\ len.n > 0
                               THEN "pending" ELSE y.tag,
                       value |-> IF y.tag = "Ok" THEN Variant(x.value.v, y.value)
                                 ELSE Unit,
                       err |-> y.err]
    /\ Decoding

\* the seed of the visitor's next pull
NextSeed(a) ==
    CASE a.kind = "seq" -> a.seeds[1]
      [] a.kind = "map" -> a.seeds[(Len(a.got) % 2) + 1]
      [] OTHER -> a.seeds[Len(a.got) + 1]

\* MapAccess::next_value_seed: next_element_seed(seed).map(Option::unwrap)
next_value_seed(len, r, seed) ==
    With(next_element_seed(len, r, seed), LAMBDA p :
         IF p.tag = "None" THEN [p EXCEPT !.tag = "Abort"] ELSE p)

\* One pull of the visitor on the cursor.  The derived visitor of a struct
\* or tuple pulls once per field and reports a missing field as a custom
\* error; the visitor of a sequence or map pulls until the cursor is
\* exhausted; the visitor of a map pulls a value after every key.
NextElement ==
    /\ dec.tag = "pending"
    /\ \E p \in {IF access.kind = "map" /\ Len(access.got) % 2 = 1
                 THEN next_value_seed(access.len, read, NextSeed(access))
                 ELSE next_element_seed(access.len, read, NextSeed(access))} :
       \E got \in {IF p.tag = "Some"
                   THEN Append(access.got,
                               [val |-> p.value, from |-> p.at, to |-> p.read.pos])
                   ELSE access.got} :
       LET fixed == access.kind \in {"struct", "tuple", "tuple_variant",
                                     "struct_variant"}
           tag == CASE p.tag = "Some" ->
                          IF fixed /\ Len(got) = Len(access.seeds) THEN "Ok"
                          ELSE "pending"
                    [] p.tag = "None" -> IF fixed THEN "Err" ELSE "Ok"
                    [] OTHER -> p.tag
           err == IF p.tag = "None" /\ fixed
                  THEN invalid_length(Len(access.got),
                                      Expecting(access.kind, Len(access.seeds)))
                  ELSE p.err
       IN  /\ access' = [access EXCEPT !.len = p.len, !.got = got]
           /\ read' = p.read
           /\ dec' = [dec EXCEPT !.tag = tag, !.err = err]
    /\ Decoding

Next ==
    \/ SerializePrimitive
    \/ SerializeUnit
    \/ SerializePath
    \/ SerializeStr
    \/ SerializeBytes
    \/ SerializeOption
    \/ SerializeStruct
    \/ SerializeTuple
    \/ SerializeSeq
    \/ SerializeUnitVariant
    \/ SerializeNewtypeVariant
    \/ SerializeTupleVariant
    \/ SerializeStructVariant
    \/ SerializeElement
    \/ SerializeEnd
    \/ BinaryDeserializer_new
    \/ DeserializePrimitive
    \/ DeserializeChar
    \/ DeserializeStr
    \/ DeserializeString
    \/ DeserializeBytes
    \/ DeserializeByteBuf
    \/ DeserializeOption
    \/ DeserializeUnit
    \/ DeserializeUnitStruct
    \/ DeserializeAny
    \/ DeserializeIdentifier
    \/ DeserializeIgnoredAny
    \/ DeserializeTuple
    \/ DeserializeStruct
    \/ DeserializeSeq
    \/ DeserializeMap
    \/ DeserializeEnum
    \/ NextElement

Spec == Init /\ [][Next]_vars

\* the visitor of a sequence or map is a loop around the pull: while the
\* decode is pending the next pull is made
LiveSpec == Init /\ [][Next]_vars /\ WF_vars(NextElement)

---------------------------------------------------------------------------
(* Properties *)

\* the reader holds every byte the encoder produced (and maybe more)
Whole == Len(read.data) >= Len(write.buf)

Returned == dec.tag \in {"Ok", "Err", "Abort"}

\* a u32 token and a usize token holding t < 256, in the configured order
Token4(t) == IF order = "LE" THEN <<t, 0, 0, 0>> ELSE <<0, 0, 0, t>>
Token8(t) == IF order = "LE" THEN <<t, 0, 0, 0, 0, 0, 0, 0>>
             ELSE <<0, 0, 0, 0, 0, 0, 0, t>>

\* the bytes a value encodes to on its own
Encoding_of(value) == serialize(VecWriter, value).write.buf

RECURSIVE Concat(_, _)
Concat(items, i) ==
    IF i > Len(items) THEN <<>>
    ELSE Encoding_of(items[i].val) \o Concat(items, i + 1)

\* C1: a valid UTF-8 string, the empty one included, encoded by serialize_str
\* and decoded by deserialize_str from a slice reader over the produced
\* bytes comes back equal, without an abort, and the reader stands at the
\* end of the encoded region, the bytes after it unread.
C1_StrRoundTrip ==
    (/\ dec.op = "str" /\ read.kind = "slice" /\ Whole
     /\ enc.k = "str" /\ from_utf8(enc.val.v))
    => /\ dec.tag = "Ok"
       /\ dec.value = enc.val
       /\ read.pos = Len(write.buf)

\* C2: a sequence or map encoded with a declared length N yields exactly N
\* elements (N pairs) from the cursor of deserialize_seq / deserialize_map
\* before the cursor reports exhaustion.
C2_DeclaredLength ==
    (/\ dec.op \in {"seq", "map"} /\ enc.declared.some
     /\ Len(read.data) = Len(write.buf))
    => /\ Len(access.got) <= Arity(enc)
       /\ Returned => dec.tag = "Ok" /\ Len(access.got) = Arity(enc)

\* C3: a struct or tuple of fixed-width primitives decoded by
\* deserialize_struct / deserialize_tuple from a slice reader over its
\* encoding comes back equal, each field decoded in declaration order from
\* the region its encoding was written to.
C3_StructRoundTrip ==
    (dec.op \in {"struct", "tuple"} /\ read.kind = "slice" /\ Whole)
    => /\ dec.tag \in {"pending", "Ok"}
       /\ Len(access.got) <= Len(enc.items)
       /\ access.got = SubSeq(enc.items, 1, Len(access.got))
       /\ dec.tag = "Ok" <=> access.got = enc.items
       /\ dec.tag = "Ok" => read.pos = Len(write.buf)

C3_Witness ==
    /\ dec.op = "struct" /\ read.kind = "slice" /\ dec.tag = "Ok"
    /\ Len(access.got) = 3
    /\ access.got[1].val.k = "u8" /\ access.got[2].val.k = "u32"

\* C4: a struct or tuple of k fields encodes to the concatenation of its
\* field encodings in declaration order and nothing else; the u32 fields
\* 17, 7, 0 give [17,0,0,0, 7,0,0,0, 0,0,0,0] in little-endian.
C4_StructLayout ==
    (enc.k \in {"struct", "tuple"} /\ enc.res = "Ok")
    => /\ write.buf = Concat(enc.items, 1)
       /\ \A i \in 1..Len(enc.items) :
             /\ enc.items[i].from = IF i = 1 THEN 0 ELSE enc.items[i - 1].to
             /\ enc.items[i].to = enc.items[i].from + SizeOf(enc.items[i].val.k)
       /\ (/\ order = "LE"
           /\ [i \in 1..Len(enc.items) |-> enc.items[i].val]
                = <<[k |-> "u32", v |-> 17], [k |-> "u32", v |-> 7],
                    [k |-> "u32", v |-> 0]>>)
          => write.buf = <<17, 0, 0, 0, 7, 0, 0, 0, 0, 0, 0, 0>>

C4_Witness ==
    /\ enc.k = "struct" /\ ~enc.open /\ order = "LE"
    /\ write.buf = <<17, 0, 0, 0, 7, 0, 0, 0, 0, 0, 0, 0>>

\* C5: a string or byte string of n bytes encodes to one length token
\* holding n (8 bytes, in the configured order) followed by its n bytes and
\* nothing else; "here" gives [4,0,0,0,0,0,0,0,'h','e','r','e'] in
\* little-endian.
C5_StringLayout ==
    (enc.k \in {"str", "bytes"} /\ enc.res = "Ok")
    => /\ write.buf = Token8(Len(enc.val.v)) \o enc.val.v
       /\ (order = "LE" /\ enc.val.v = Here)
          => write.buf = <<4, 0, 0, 0, 0, 0, 0, 0, 104, 101, 114, 101>>

C5_Witness ==
    /\ enc.val = [k |-> "str", v |-> Here] /\ order = "LE"
    /\ write.buf = <<4, 0, 0, 0, 0, 0, 0, 0, 104, 101, 114, 101>>

\* C6: an absent option encodes to the 4-byte variant token 0 and no
\* payload; a present option encodes to the 4-byte variant token 1 followed
\* by exactly the encoding of its inner value; Some(5u8) gives [1,0,0,0,5]
\* in little-endian.
C6_OptionLayout ==
    (enc.k = "option" /\ enc.res = "Ok")
    => /\ enc.val.v = <<>> => write.buf = Token4(0)
       /\ enc.val.v # <<>> =>
             write.buf = Token4(1) \o Encoding_of(enc.val.v[1])
       /\ (order = "LE" /\ enc.val.v = <<[k |-> "u8", v |-> 5]>>)
          => write.buf = <<1, 0, 0, 0, 5>>

C6_Witness ==
    /\ enc.val = [k |-> "option", v |-> <<[k |-> "u8", v |-> 5]>>]
    /\ order = "LE"
    /\ write.buf = <<1, 0, 0, 0, 5>>

\* the variant token at the head of the encoder's output
TokenWritten == IF enc.k = "option" THEN Len(enc.val.v) ELSE enc.val.v

\* C7: deserialize_option over at least one variant token: token 0 gives
\* absent and the reader stands right after the token; token 1 gives
\* present, the inner value decoded from the bytes right after the token;
\* any other token t gives the error UnexpectedVariant(t) and the reader
\* stands right after the token.
C7_OptionDecode ==
    (dec.op = "option" /\ Len(read.data) >= variant_size)
    => LET t == TokenWritten
           after == [kind |-> read.kind, data |-> read.data, pos |-> variant_size]
           y == deserialize(after, InnerType)
       IN  /\ t = 0 => /\ dec.tag = "Ok"
                       /\ dec.value = [k |-> "option", v |-> <<>>]
                       /\ read = after
           /\ t = 1 => /\ dec.tag = y.tag /\ dec.err = y.err /\ read = y.read
                       /\ y.tag = "Ok" =>
                             dec.value = [k |-> "option", v |-> <<y.value>>]
                       /\ (enc.k = "option" /\ Whole) =>
                             dec.tag = "Ok" /\ dec.value = enc.val
           /\ t > 1 => /\ dec.tag = "Err"
                       /\ dec.err = Inner(Left(RawErr("UnexpectedVariant", t, 0)))
                       /\ read = after

C7_Witness ==
    /\ dec.op = "option" /\ dec.tag = "Err"
    /\ dec.err = Inner(Left(RawErr("UnexpectedVariant", 7, 0)))
    /\ read.pos = variant_size /\ Len(read.data) > variant_size

\* C8: deserialize_char over at least char_size bytes reads exactly those
\* and takes them as a 32-bit code: a Unicode scalar value gives that
\* character (a char written by serialize_char comes back equal), a
\* surrogate or a code above 0x10FFFF gives the error WrongChar(code).
C8_CharDecode ==
    (dec.op = "char" /\ Len(read.data) >= char_size)
    => LET code == enc.val.v
       IN  /\ read.pos = char_size
           /\ (code < 55296 \/ (code >= 57344 /\ code <= 1114111))
              => dec.tag = "Ok" /\ dec.value = [k |-> "char", v |-> code]
           /\ ((code >= 55296 /\ code <= 57343) \/ code > 1114111)
              => /\ dec.tag = "Err"
                 /\ dec.err = Inner(Left(RawErr("WrongChar", code, 0)))
           /\ enc.k = "char" => dec.tag = "Ok" /\ dec.value = enc.val

C8_Witness ==
    /\ dec.op = "char" /\ dec.tag = "Err"
    /\ dec.err = Inner(Left(RawErr("WrongChar", 57343, 0)))

\* the width of the first token a decode reads
TokenWidth(op) ==
    CASE op \in {"str", "string", "bytes", "byte_buf"} -> length_size
      [] op = "option" -> variant_size
      [] op = "char" -> char_size
      [] OTHER -> SizeOf(op)

Scalar(op) == op \in PrimTypes \cup {"char", "option", "str", "string",
                                     "bytes", "byte_buf"}

\* C9: on a slice reader, a primitive, character, option or string decode
\* that finds fewer bytes than its first token is wide returns IoError and
\* leaves the reader where it was; a string decode whose length prefix
\* exceeds the bytes after it returns IoError with the reader right after
\* the prefix.
C9_ShortInput ==
    (Scalar(dec.op) /\ read.kind = "slice")
    => LET w == TokenWidth(dec.op)
           n == Len(read.data)
       IN  /\ n < w => /\ dec.tag = "Err"
                       /\ dec.err = Inner(Right(IoError(n, w)))
                       /\ read.pos = 0
           /\ (/\ dec.op \in {"str", "string", "bytes", "byte_buf"}
               /\ n >= w /\ Len(enc.val.v) > n - w)
              => /\ dec.tag = "Err"
                 /\ dec.err = Inner(Right(IoError(n - w, Len(enc.val.v))))
                 /\ read.pos = length_size

C9_Witness ==
    /\ dec.op = "u32" /\ read.kind = "slice" /\ Len(read.data) = 3
    /\ dec.tag = "Err" /\ read.pos = 0

\* C10: deserialize_string / deserialize_byte_buf over the encoding of a
\* string or byte string give, on a slice reader and on a stream reader
\* over the same bytes, the encoded content, and consume the same number
\* of bytes.
C10_SliceStreamAgree ==
    (/\ dec.op \in {"string", "byte_buf"} /\ Whole
     /\ dec.op = "string" => from_utf8(enc.val.v))
    => LET other == deserialize_owned(
                        [kind |-> IF read.kind = "slice" THEN "stream" ELSE "slice",
                         data |-> read.data, pos |-> 0], dec.op = "string")
       IN  /\ dec.tag = "Ok" /\ other.tag = "Ok"
           /\ dec.value.v = enc.val.v /\ other.value.v = enc.val.v
           /\ read.pos = other.read.pos

IntTypes == {"u8", "u16", "u32", "u64", "i8", "i16", "i32", "i64"}

\* byte i (1 = least significant) of the two's-complement pattern of v, for
\* |v| < 2^31: the bytes above the fourth repeat the sign
ByteOf(v, i) ==
    CASE i = 1 -> v % 256
      [] i = 2 -> (v \div 256) % 256
      [] i = 3 -> (v \div 65536) % 256
      [] i = 4 -> (v \div 16777216) % 256
      [] OTHER -> IF v < 0 THEN 255 ELSE 0

Pattern(value) ==
    LET w == SizeOf(value.k)
        le == [i \in 1..w |-> IF value.k = "bool"
                              THEN (IF value.v THEN 1 ELSE 0)
                              ELSE ByteOf(value.v, i)]
    IN  IF order = "LE" THEN le ELSE [i \in 1..w |-> le[w + 1 - i]]

\* C11: an integer of width w encodes to exactly the w bytes of its
\* (two's-complement) bit pattern in the configured byte order, a bool to
\* the byte 1 or 0, with one write call; u64 5 gives [5,0,0,0,0,0,0,0] in
\* little-endian; decoding the bytes as the same type gives the value back
\* and reads w bytes.
C11_IntegerLayout ==
    (enc.k \in IntTypes \cup {"bool"} /\ enc.res = "Ok")
    => /\ write.buf = Pattern(enc.val)
       /\ Len(write.buf) = SizeOf(enc.k)
       /\ write.calls = 1
       /\ (order = "LE" /\ enc.val = [k |-> "u64", v |-> 5])
          => write.buf = <<5, 0, 0, 0, 0, 0, 0, 0>>
       /\ (dec.op = enc.k /\ Whole)
          => /\ dec.tag = "Ok" /\ dec.value = enc.val
             /\ read.pos = SizeOf(enc.k)

C11_Witness ==
    /\ enc.val = [k |-> "i16", v |-> -2] /\ order = "BE"
    /\ write.buf = <<255, 254>>
    /\ dec.op = "i16" /\ dec.tag = "Ok" /\ dec.value.v = -2

\* a step in which the serializer made exactly one write call on the
\* fixed-capacity writer, every earlier call having succeeded
OneSliceWrite ==
    /\ write.kind = "slice" /\ enc.res = "Ok"
    /\ write'.calls = write.calls + 1

\* C12: on the slice writer with remaining capacity c, a write of at most c
\* bytes succeeds, stores the bytes right after those already stored and
\* leaves the capacity at c minus their number; so a write call ends
\* otherwise only when its bytes outnumber c, with IoError(c..len).
C12_SliceWriteFits ==
    [][OneSliceWrite
       => \/ /\ enc'.res = "Ok"
             /\ SubSeq(write'.buf, 1, Len(write.buf)) = write.buf
             /\ write'.cap = write.cap - (Len(write'.buf) - Len(write.buf))
          \/ /\ enc'.res = "Err"
             /\ enc'.err = Inner(Right(IoError(write.cap, enc'.err.b)))
             /\ enc'.err.b > write.cap]_vars

\* C13: on the slice writer with remaining capacity c, a write of more than
\* c bytes returns IoError(c..len) and leaves the stored bytes and the
\* capacity as they were: a primitive of width len > c fails so, and every
\* write call that fails reports c and a larger len and stores nothing.
C13_SliceWriteFull ==
    [][OneSliceWrite
       => /\ (/\ enc.k = "none" /\ enc'.k \in PrimTypes
              /\ SizeOf(enc'.k) > write.cap)
             => /\ enc'.res = "Err"
                /\ enc'.err = Inner(Right(IoError(write.cap, SizeOf(enc'.k))))
          /\ enc'.res = "Err"
             => /\ enc'.err = Inner(Right(IoError(write.cap, enc'.err.b)))
                /\ enc'.err.b > write.cap
                /\ write'.buf = write.buf
                /\ write'.cap = write.cap]_vars

C13_Witness ==
    /\ write.kind = "slice" /\ enc.k = "u32" /\ enc.res = "Err"
    /\ enc.err = Inner(Right(IoError(3, 4)))
    /\ write.buf = <<>> /\ write.cap = 3 /\ write.calls = 1

\* C14: deserialize_any, deserialize_identifier and deserialize_ignored_any
\* return the error NotSupported whatever the reader holds, hand nothing to
\* the visitor and leave the reader where it was.
C14_NotSupported ==
    dec.op \in {"any", "identifier", "ignored_any"}
    => /\ dec.tag = "Err"
       /\ dec.err = Inner(Left(RawErr("NotSupported", 0, 0)))
       /\ dec.value = Unit /\ access = NoAccess
       /\ read.pos = 0

C14_Witness ==
    /\ dec.op = "ignored_any" /\ dec.tag = "Err" /\ dec.err.e = "NotSupported"
    /\ enc.k = "str" /\ Len(read.data) > length_size /\ read.pos = 0

\* the payload of the encoded variant, each field on its own
Payload ==
    CASE enc.k = "unit_variant" -> <<>>
      [] enc.k = "newtype_variant" -> Encoding_of(enc.val)
      [] OTHER -> Concat(enc.items, 1)

\* C15: a unit, newtype, tuple or struct variant encodes to one variant
\* token holding its index followed by its payload (nothing, the value, the
\* fields in order); deserialize_enum over those bytes recovers the index
\* and the payload, every field from the region it was written to.
C15_EnumRoundTrip ==
    (enc.k \in VariantKinds /\ enc.res = "Ok")
    => /\ write.buf = Token4(enc.index) \o Payload
       /\ (dec.op = "enum" /\ Whole)
          => /\ dec.tag \in {"pending", "Ok"}
             /\ dec.value.k = "variant" /\ dec.value.v = enc.index
             /\ enc.k = "unit_variant" => dec.tag = "Ok"
             /\ enc.k = "newtype_variant"
                => dec.tag = "Ok" /\ dec.value.p = enc.val
             /\ enc.k \in {"tuple_variant", "struct_variant"}
                => /\ Len(access.got) <= Len(enc.items)
                   /\ access.got = SubSeq(enc.items, 1, Len(access.got))
                   /\ dec.tag = "Ok" <=> access.got = enc.items
             /\ dec.tag = "Ok" => read.pos = Len(write.buf)

C15_Witness ==
    /\ enc.k = "struct_variant" /\ enc.index = 2
    /\ dec.op = "enum" /\ dec.tag = "Ok" /\ dec.value.v = 2
    /\ Len(access.got) = 2 /\ access.got = enc.items
    /\ access.got[1].val.k = "u16" /\ read.kind = "stream"

\* the compound encoder a second encode of the same value starts with
Begin ==
    CASE enc.k = "struct" -> serialize_struct(VecWriter, enc.declared.n)
      [] enc.k = "tuple" -> serialize_tuple(VecWriter, enc.declared.n)
      [] enc.k = "seq" -> serialize_seq(VecWriter, enc.declared)
      [] enc.k = "map" -> serialize_map(VecWriter, enc.declared)
      [] enc.k = "tuple_variant" ->
            serialize_tuple_variant(VecWriter, enc.index, enc.declared.n)
      [] enc.k = "struct_variant" ->
            serialize_struct_variant(VecWriter, enc.index, enc.declared.n)

RECURSIVE Refold(_, _, _)
Refold(s, items, i) ==
    IF i > Len(items) THEN s
    ELSE Refold(SerializeSeq_serialize_element(s, items[i].val).s, items, i + 1)

\* what a second encode of the same value, as far as the first has got,
\* leaves in a fresh growable writer
Again ==
    CASE enc.k \in {"struct", "tuple", "seq", "map", "tuple_variant",
                    "struct_variant"} ->
            LET s == Refold(Begin.s, enc.items, 1)
            IN  IF enc.open THEN s.write.buf ELSE SerializeSeq_end(s).write.buf
      [] enc.k = "unit_variant" ->
            serialize_unit_variant(VecWriter, enc.index).write.buf
      [] enc.k = "newtype_variant" ->
            serialize_newtype_variant(VecWriter, enc.index, enc.val).write.buf
      [] OTHER -> serialize(VecWriter, enc.val).write.buf

C17_ElementFailure ==
    [][/\ (enc.open /\ enc.res = "Ok" /\ enc'.res = "Err" /\ enc'.open)
          => /\ write.kind = "slice"
             /\ enc'.err = Inner(Right(IoError(write.cap, SizeOf(enc'.val.k))))
             /\ write.cap < SizeOf(enc'.val.k)
             /\ enc'.items = enc.items
       /\ (enc.open /\ enc.res = "Err")
          => write'.buf = write.buf /\ write'.calls = write.calls]_vars

C17_Witness ==
    /\ enc.k = "struct" /\ enc.open /\ write.kind = "slice"
    /\ Len(enc.items) = 1 /\ write.buf = <<5>>
    /\ enc.val.k = "u32" /\ enc.res = "Abort" /\ seq.raw = "ErrNone"
    /\ write.calls = 2

\* the regions the cursor's elements were read from lie side by side from
\* the start of the input, and the reader stands at the end of the last
Adjacent ==
    /\ \A i \in 1..Len(access.got) :
          access.got[i].from = IF i = 1 THEN 0 ELSE access.got[i - 1].to
    /\ read.pos = IF access.got = <<>> THEN 0
                  ELSE access.got[Len(access.got)].to

\* C18: on the slice reader every read(n) with 0 <= n <= remaining returns
\* the next n bytes and advances by n, read(0) changing nothing: a string
\* decode whose length token n fits (its reads are read(8), read(n)) gets
\* bytes 9..8+n and leaves the reader at 8+n, and the pulls of an unbounded
\* cursor (each a read(0) and the element's reads) take adjacent regions.
C18_SliceReadAdvance ==
    read.kind = "slice"
    => /\ (/\ dec.op \in {"str", "bytes", "string", "byte_buf"}
           /\ Len(read.data) >= length_size + Len(enc.val.v))
          => /\ dec.tag \in {"Ok", "Err"}
             /\ read.pos = length_size + Len(enc.val.v)
             /\ dec.tag = "Ok"
                => dec.value.v = SubSeq(read.data, length_size + 1, read.pos)
       /\ dec.op \in {"seq", "map"}
          => dec.tag # "Abort" /\ Adjacent

\* C19: a cursor with a known count n decodes an element on each of its
\* first n pulls whatever the transport's has-more signal says, so the
\* visitor of a struct or tuple is never told of exhaustion before its
\* last field: a truncated struct ends with the transport's error.
C19_KnownCount ==
    dec.op \in {"struct", "tuple"}
    => /\ Len(access.got) < Len(access.seeds) => dec.tag \in {"pending", "Err"}
       /\ dec.tag = "Err" => /\ dec.err.arm = "Inner"
                             /\ dec.err.side = "Right"

\* C20: every decode call, on truncated input too, ends with a value or an
\* error and never aborts.
C20_NoAbort == dec.tag # "Abort"

\* the count a cursor works with: the one it holds, or the one it takes
\* from the sequence-length token on its first pull
Count(len) == IF len.some THEN len.n ELSE usize_max

\* a pull of the visitor on the cursor
PullStep == dec.tag = "pending"

\* C21: the cursor's remaining count is what a pull leaves behind for the
\* next: a pull that yields an element lowers it by exactly one, a pull
\* whose element decode fails leaves it lowered by one as well, and no
\* pull changes it otherwise than by that one decrement.
C21_CountStep ==
    [][PullStep
       => LET lowered == Some(Count(access.len) - 1)
          IN  /\ access'.len \in {access.len, lowered}
              /\ Len(access'.got) = Len(access.got) + 1 => access'.len = lowered
              /\ (dec'.tag = "Err" /\ dec'.err.arm = "Inner")
                 => access'.len = lowered /\ access'.got = access.got
              /\ access'.kind = access.kind /\ access'.seeds = access.seeds]_vars

C21_Witness ==
    /\ access.kind = "struct" /\ Len(access.seeds) = 3 /\ Len(access.got) = 2
    /\ access.len = Some(0)
    /\ dec.tag = "Err" /\ dec.err.arm = "Inner" /\ read.kind = "stream"

\* an unbounded cursor over the whole encoding of a sequence or map that
\* was written without a length token
Unbounded ==
    /\ dec.op \in {"seq", "map"} /\ ~enc.declared.some
    /\ Len(read.data) = Len(write.buf)

\* C22: the pulls of an unbounded cursor over a finite input, on the slice
\* reader and on the stream reader, come to report exhaustion once the
\* last byte is consumed: the sequence decode ends with a value, not with
\* an error, an abort or never.
C22_Exhaustion == Unbounded ~> (Unbounded /\ dec.tag = "Ok")

\* C23: deserialize_bytes and deserialize_str on a transport that cannot
\* lend its bytes (the stream reader, whose read always answers with the
\* needs-buffering signal) return the error CannotReadBorrowed, hand
\* nothing to the visitor and consume no byte.
C23_CannotBorrow ==
    (dec.op \in {"str", "bytes"} /\ read.kind = "stream")
    => /\ dec.tag = "Err"
       /\ dec.err = Inner(Left(RawErr("CannotReadBorrowed", 0, 0)))
       /\ dec.value = Unit /\ access = NoAccess
       /\ read.pos = 0

C23_Witness ==
    /\ dec.op = "bytes" /\ read.kind = "stream" /\ dec.tag = "Err"
    /\ dec.err.e = "CannotReadBorrowed"
    /\ enc.val.v = Here /\ Len(read.data) = 12 /\ read.pos = 0

\* C24: serialize_unit and serialize_unit_struct write nothing and return
\* the encoder with its writer as it was; deserialize_unit and
\* deserialize_unit_struct read nothing and leave the reader where it was.
C24_UnitFrame ==
    [][/\ (enc.k = "none" /\ enc'.k \in {"unit", "unit_struct"})
          => write' = write /\ enc'.res = "Ok"
       /\ (dec.op = "none" /\ dec'.op \in {"unit", "unit_struct"})
          => read' = read /\ dec'.tag = "Ok" /\ dec'.value = Unit]_vars

C24_Witness ==
    /\ enc.k = "unit_struct" /\ enc.res = "Ok"
    /\ write.buf = <<>> /\ write.calls = 0
    /\ dec.op = "unit" /\ dec.tag = "Ok"
    /\ read.data = <<9>> /\ read.pos = 0

\* the failures the encoder, the decoder and the transports raise themselves
Raised == {"IoError", "UnexpectedEof", "WrongChar", "Utf8Error",
           "FromUtf8Error", "UnexpectedVariant", "NotSupported",
           "CannotReadBorrowed"}

Structural(e) ==
    e.arm = "Inner" /\ e.side \in {"Left", "Right"} /\ e.e \in Raised

Message(text) == [arm |-> "Other", side |-> "none", e |-> text, a |-> 0, b |-> 0]

Digit(n) == <<"0", "1", "2", "3", "4", "5", "6", "7", "8", "9">>[n + 1]

FixedKinds == {"struct", "tuple", "tuple_variant", "struct_variant"}

\* the visitor of a struct or tuple was told of exhaustion and raised custom
VisitorRaised ==
    /\ access.kind \in FixedKinds /\ dec.tag = "Err"
    /\ read.kind = "slice" /\ read.pos = Len(read.data)

\* the text serde formats for the missing field
MissingField ==
    LET n == Len(access.seeds)
        elements == Digit(n) \o (IF n = 1 THEN " element" ELSE " elements")
    IN  "invalid length " \o Digit(Len(access.got)) \o ", expected "
            \o (CASE access.kind = "tuple" -> "a tuple of size " \o Digit(n)
                   [] access.kind = "struct" -> "struct with " \o elements
                   [] access.kind = "tuple_variant" ->
                        "tuple variant with " \o elements
                   [] OTHER -> "struct variant with " \o elements)

\* C25: an error made by custom, on the encode side and on the decode
\* side, is the Other arm holding exactly the formatted message (String
\* collector) and never the Inner arm; every failure the encoder, the
\* decoder or the transport raises itself is in the Inner arm.
C25_CustomArm ==
    /\ enc.res = "Err"
       => IF enc.k = "path" /\ ~from_utf8(enc.val.v)
          THEN enc.err = Message("path contains invalid UTF-8 characters")
          ELSE Structural(enc.err)
    /\ dec.tag = "Err"
       => IF VisitorRaised THEN dec.err = Message(MissingField)
          ELSE Structural(dec.err)

C25_Witness ==
    /\ dec.op = "struct" /\ dec.tag = "Err" /\ Len(access.got) = 1
    /\ dec.err = Message("invalid length 1, expected struct with 2 elements")

\* C26: a compound encoder hands out a write error once.  After a
\* serialize_element call has returned the error the slot is Err(None):
\* the encoder holds neither a serializer nor an error, and the next
\* serialize_element or end call aborts on unwrapping the empty slot
\* instead of returning an error; end returns Ok only if every
\* serialize_element before it returned Ok.
C26_ErrorOnce ==
    [][/\ (enc'.open /\ enc'.res = "Err")
          => seq'.raw = "ErrNone" /\ seq'.err = NoErr
       /\ (enc.open /\ enc.res = "Err" /\ enc' # enc)
          => /\ enc'.res = "Abort" /\ enc'.err = Panic
             /\ enc'.items = enc.items /\ write'.buf = write.buf
       /\ (enc.open /\ ~enc'.open /\ enc'.res = "Ok")
          => enc.failed = 0 /\ enc.res = "Ok" /\ seq.raw = "Ok"]_vars

C26_Witness ==
    /\ enc.k = "seq" /\ ~enc.open /\ enc.res = "Abort" /\ enc.failed = 1
    /\ Len(enc.items) = 1 /\ write.kind = "slice" /\ write.cap = 0

=============================================================================
